---- MODULE Spec2Model ----
(***************************************************************************)
(* Monotonic wedge (Lemire running min/max with the Fenn search), as       *)
(* implemented by mono_wedge::mono_wedge<T> in src/mono_wedge.h, together  *)
(* with the window-maintaining callers of src/example.cpp and              *)
(* src/unit_tests.cpp.                                                     *)
(*                                                                         *)
(* T is the drivers' Sample: a record [time, value] whose operator< and    *)
(* operator> compare the value field only.  A call update(key, value) of   *)
(* the keyed interface is the call update(Sample{key, value}).             *)
(***************************************************************************)
EXTENDS Integers, Sequences, FiniteSets, TLC

\* ------------------------------------------------------------------ bounds
MaxN == 5       \* updates per run of the caller-driven specifications
NV == 3         \* sample values are 1..NV in the caller-driven specifications
MaxGap == 1     \* a new key exceeds the previous one by 1..MaxGap
MaxW == 3       \* window widths are 1..MaxW
NVS == 11       \* values (and so wedge sizes) of the search specification

WordBits == 64  \* width of size_t

Values == 1..NV
SearchValues == 1..NVS
Gaps == 1..MaxGap
Windows == 1..MaxW

VARIABLES
    wedge,       \* std::deque<T> wedge_, front to back
    cmp,         \* the comparator the caller uses throughout: "less" or "greater"
    hist,        \* every sample passed to update so far, in call order
    erased,      \* entries erased by update (sum of distance(i, end))
    popped,      \* pop_front calls made on a non-empty wedge
    gone,        \* times of the entries removed so far
    lastPopped,  \* time of the entry most recently removed by pop_front, -1 if none
    pc,          \* position of the window-maintaining caller: "idle" or "evict"
    W,           \* the caller's window width (0: no window policy)
    fault,       \* "none", or the outcome of undefined behaviour
    out,         \* the entry last read through begin()
    op,          \* the last operation performed
    min_wedge,   \* the unit test's min_wedge
    max_wedge    \* the unit test's max_wedge

vars == <<wedge, cmp, hist, erased, popped, gone, lastPopped, pc, W, fault, out, op,
          min_wedge, max_wedge>>

Sample(t, v) == [time |-> t, value |-> v]
NoEntry == [time |-> -1, value |-> 0]
Garbage == [time |-> -2, value |-> 0]

\* ------------------------------------------------------- mono_wedge<T> code

\* std::less<T> / std::greater<T> over Sample::operator< / operator>
comp_nonstrict(c, a, b) ==
    IF c = "less" THEN a.value <= b.value ELSE a.value >= b.value

comp(c, a, b) ==
    IF c = "less" THEN a.value < b.value ELSE a.value > b.value

\* The loop condition ((size - i) >> i) > 0ul over size_t.  When i > size the
\* subtraction wraps to 2^64 - (i - size), whose shift by i < 64 is positive.
LoopCond_noshift(size, i) == (size - i) > 0

LoopCond_noscan(size, i) == FALSE

LoopCond_latecount(size, i) == (size \div (2 ^ (i - 1))) > 0

LoopCond(size, i) ==
    IF i > size THEN TRUE ELSE ((size - i) \div (2 ^ i)) > 0

\* std::lower_bound(first, first + len, value, comp): positions are 1-based
\* indices into w, the result is in first..first+len.
RECURSIVE lower_bound(_, _, _, _, _)
lower_bound_swapped(w, first, len, value, c) ==
    IF len = 0 THEN first
    ELSE LET half == len \div 2
             mid  == first + half
         IN  IF ~comp(c, value, w[mid])
             THEN lower_bound(w, mid + 1, len - half - 1, value, c)
             ELSE lower_bound(w, first, half, value, c)

lower_bound(w, first, len, value, c) ==
    IF len = 0 THEN first
    ELSE LET half == len \div 2
             mid  == first + half
         IN  IF comp(c, w[mid], value)
             THEN lower_bound(w, mid + 1, len - half - 1, value, c)
             ELSE lower_bound(w, first, half, value, c)

\* The for loop of search, entered with counter i and search_pos = pos.
RECURSIVE scan(_, _, _, _, _, _)
scan_offbyone(w, size, i, pos, value, c) ==
    IF LoopCond(size, i)
    THEN IF comp(c, w[pos], value)
         THEN pos
         ELSE scan(w, size, i + 1, pos - 1, value, c)
    ELSE lower_bound(w, 1, pos, value, c)

scan(w, size, i, pos, value, c) ==
    IF LoopCond(size, i)
    THEN IF comp(c, w[pos], value)
         THEN pos + 1
         ELSE scan(w, size, i + 1, pos - 1, value, c)
    ELSE lower_bound(w, 1, pos, value, c)

\* search(begin, end, value, comp): the index of the returned iterator,
\* Len(w) + 1 standing for end.
search(w, value, c) ==
    LET size == Len(w)
    IN  IF size <= 0 THEN size + 1
        ELSE scan(w, size, 1, size, value, c)

\* The evaluations of the loop condition made by the for loop of search, in
\* order: the counter i, the position of search_pos, whether the condition
\* held (the element at pos was then probed) and whether the probe returned.
RECURSIVE scan_steps(_, _, _, _, _, _)
scan_steps(w, size, i, pos, value, c) ==
    IF LoopCond(size, i)
    THEN IF comp(c, w[pos], value)
         THEN <<[i |-> i, pos |-> pos, cond |-> TRUE, hit |-> TRUE]>>
         ELSE <<[i |-> i, pos |-> pos, cond |-> TRUE, hit |-> FALSE]>>
              \o scan_steps(w, size, i + 1, pos - 1, value, c)
    ELSE <<[i |-> i, pos |-> pos, cond |-> FALSE, hit |-> FALSE]>>

search_steps(w, value, c) ==
    LET size == Len(w)
    IN  IF size <= 0 THEN <<>>
        ELSE scan_steps(w, size, 1, size, value, c)

\* The comparator evaluations of std::lower_bound(first, first + len, ...).
RECURSIVE lower_bound_cmps(_, _, _, _, _)
lower_bound_cmps(w, first, len, value, c) ==
    IF len = 0 THEN 0
    ELSE LET half == len \div 2
             mid  == first + half
         IN  IF comp(c, w[mid], value)
             THEN 1 + lower_bound_cmps(w, mid + 1, len - half - 1, value, c)
             ELSE 1 + lower_bound_cmps(w, first, half, value, c)

\* The comparator evaluations of one call of search: the probes of the loop,
\* then those of std::lower_bound(begin, ++search_pos, ...) when it is reached.
search_cmps(w, value, c) ==
    LET st == search_steps(w, value, c)
    IN  IF st = <<>> THEN 0
        ELSE IF st[Len(st)].cond THEN Len(st)
        ELSE (Len(st) - 1) + lower_bound_cmps(w, 1, st[Len(st)].pos, value, c)

\* wedge_.erase(i, wedge_.end())
erase_to_end_keep(w, i) == SubSeq(w, 1, IF i <= Len(w) THEN i ELSE Len(w))

erase_to_end(w, i) == SubSeq(w, 1, i - 1)

\* update(value, comp)
update_noerase(w, value, c) == Append(w, value)

update(w, value, c) ==
    Append(erase_to_end(w, search(w, value, c)), value)

min_update(w, value) == update(w, value, "less")

max_update(w, value) == update(w, value, "greater")

\* pop_front() on a non-empty wedge: wedge_.erase(wedge_.begin())
pop_front_back(w) == SubSeq(w, 1, Len(w) - 1)

pop_front(w) == SubSeq(w, 2, Len(w))

\* The outcomes of erase(begin()) and of *begin() where begin() = end().
UBOutcomes == {"crash", "corrupt"}

\* ------------------------------------------------------------- the callers

LastKey == IF hist = <<>> THEN -1 ELSE hist[Len(hist)].time

\* example.cpp's eviction test: wedge.begin()->first <= sample.time - rangeSize
Expired_nowindow(e, now, w) == e.time <= now

Expired_strict(e, now, w) == e.time < now - w

Expired(e, now, w) == e.time <= now - w

\* One call of min_update / max_update with its book-keeping.
DoUpdate(s) ==
    LET i == search(wedge, s, cmp)
    IN  /\ wedge' = IF cmp = "less" THEN min_update(wedge, s) ELSE max_update(wedge, s)
        /\ erased' = erased + (Len(wedge) + 1 - i)
        /\ gone' = gone \cup {wedge[j].time : j \in i..Len(wedge)}
        /\ hist' = Append(hist, s)
        /\ op' = "update"
        /\ UNCHANGED <<min_wedge, max_wedge>>

\* One call of pop_front on a non-empty wedge with its book-keeping.
DoPop ==
    /\ wedge' = pop_front(wedge)
    /\ popped' = popped + 1
    /\ gone' = gone \cup {wedge[1].time}
    /\ lastPopped' = wedge[1].time
    /\ op' = "pop_front"
    /\ UNCHANGED <<min_wedge, max_wedge>>

InitCommon ==
    /\ cmp \in {"less", "greater"}
    /\ erased = 0
    /\ popped = 0
    /\ gone = {}
    /\ lastPopped = -1
    /\ pc = "idle"
    /\ fault = "none"
    /\ out = NoEntry
    /\ op = "init"
    /\ min_wedge = <<>>
    /\ max_wedge = <<>>

\* ---- a caller that updates and pops freely (never on an empty wedge)
Init ==
    /\ InitCommon
    /\ wedge = <<>>
    /\ hist = <<>>
    /\ W = 0

MinUpdate ==
    /\ fault = "none" /\ pc = "idle" /\ cmp = "less"
    /\ Len(hist) < MaxN
    /\ \E g \in Gaps, v \in Values : DoUpdate(Sample(LastKey + g, v))
    /\ UNCHANGED <<cmp, popped, lastPopped, pc, W, fault, out>>

MaxUpdate ==
    /\ fault = "none" /\ pc = "idle" /\ cmp = "greater"
    /\ Len(hist) < MaxN
    /\ \E g \in Gaps, v \in Values : DoUpdate(Sample(LastKey + g, v))
    /\ UNCHANGED <<cmp, popped, lastPopped, pc, W, fault, out>>

PopFront ==
    /\ fault = "none" /\ pc = "idle"
    /\ wedge /= <<>>
    /\ DoPop
    /\ UNCHANGED <<cmp, hist, erased, pc, W, fault, out>>

Next == MinUpdate \/ MaxUpdate \/ PopFront

Spec == Init /\ [][Next]_vars

\* ---- the window-maintaining caller of example.cpp: update, then pop_front
\* ---- while the front has aged out, then read the front
InitWindow ==
    /\ InitCommon
    /\ wedge = <<>>
    /\ hist = <<>>
    /\ W \in Windows

WinMinUpdate ==
    /\ fault = "none" /\ pc = "idle" /\ cmp = "less"
    /\ Len(hist) < MaxN
    /\ \E g \in Gaps, v \in Values : DoUpdate(Sample(LastKey + g, v))
    /\ pc' = "evict"
    /\ UNCHANGED <<cmp, popped, lastPopped, W, fault, out>>

WinMaxUpdate ==
    /\ fault = "none" /\ pc = "idle" /\ cmp = "greater"
    /\ Len(hist) < MaxN
    /\ \E g \in Gaps, v \in Values : DoUpdate(Sample(LastKey + g, v))
    /\ pc' = "evict"
    /\ UNCHANGED <<cmp, popped, lastPopped, W, fault, out>>

\* One evaluation of the while condition, which reads *begin() unguarded,
\* followed by the loop body or by the loop exit and the read of the front.
WinEvict ==
    /\ fault = "none" /\ pc = "evict"
    /\ IF wedge = <<>>
       THEN /\ fault' \in UBOutcomes
            /\ out' = Garbage
            /\ op' = "front"
            /\ UNCHANGED <<wedge, cmp, hist, erased, popped, gone, lastPopped, pc, W>>
            /\ UNCHANGED <<min_wedge, max_wedge>>
       ELSE IF Expired(wedge[1], LastKey, W)
       THEN /\ DoPop
            /\ UNCHANGED <<cmp, hist, erased, pc, W, fault, out>>
       ELSE /\ out' = wedge[1]
            /\ pc' = "idle"
            /\ op' = "front"
            /\ UNCHANGED <<wedge, cmp, hist, erased, popped, gone, lastPopped, W, fault>>
            /\ UNCHANGED <<min_wedge, max_wedge>>

NextWindow == WinMinUpdate \/ WinMaxUpdate \/ WinEvict

SpecWindow == InitWindow /\ [][NextWindow]_vars

\* ---- search and update applied once to every strictly monotonic wedge
RECURSIVE SortedSeq(_, _)
SortedSeq(S, c) ==
    IF S = {} THEN <<>>
    ELSE LET x == CHOOSE y \in S : \A z \in S : IF c = "less" THEN y >= z ELSE y <= z
         IN  Append(SortedSeq(S \ {x}, c), x)

Stamp(vs) == [j \in 1..Len(vs) |-> Sample(j - 1, vs[j])]

\* The wedge and the comparator evaluations after the updates h, one by one,
\* on an empty wedge.
RECURSIVE Replay(_, _)
Replay(h, c) ==
    IF h = <<>> THEN [w |-> <<>>, n |-> 0]
    ELSE LET r == Replay(SubSeq(h, 1, Len(h) - 1), c)
             s == h[Len(h)]
         IN  [w |-> update(r.w, s, c), n |-> r.n + search_cmps(r.w, s, c)]

InitSearch ==
    /\ InitCommon
    /\ \E S \in SUBSET SearchValues : wedge = Stamp(SortedSeq(S, cmp))
    /\ hist = wedge
    /\ W = 0

SearchMinUpdate ==
    /\ op = "init" /\ cmp = "less"
    /\ \E v \in SearchValues : DoUpdate(Sample(LastKey + 1, v))
    /\ UNCHANGED <<cmp, popped, lastPopped, pc, W, fault, out>>

SearchMaxUpdate ==
    /\ op = "init" /\ cmp = "greater"
    /\ \E v \in SearchValues : DoUpdate(Sample(LastKey + 1, v))
    /\ UNCHANGED <<cmp, popped, lastPopped, pc, W, fault, out>>

NextSearch == SearchMinUpdate \/ SearchMaxUpdate

SpecSearch == InitSearch /\ [][NextSearch]_vars

\* ---- a caller that also calls begin()/pop_front() on an empty wedge
Front ==
    /\ fault = "none" /\ pc = "idle"
    /\ wedge /= <<>>
    /\ out' = wedge[1]
    /\ op' = "front"
    /\ UNCHANGED <<wedge, cmp, hist, erased, popped, gone, lastPopped, pc, W, fault>>
    /\ UNCHANGED <<min_wedge, max_wedge>>

\* *begin() with begin() = end(): reads past the stored range
FrontEmpty ==
    /\ fault = "none" /\ pc = "idle"
    /\ wedge = <<>>
    /\ fault' \in UBOutcomes
    /\ out' = IF fault' = "crash" THEN out ELSE Garbage
    /\ op' = "front"
    /\ UNCHANGED <<wedge, cmp, hist, erased, popped, gone, lastPopped, pc, W>>
    /\ UNCHANGED <<min_wedge, max_wedge>>

\* wedge_.erase(wedge_.begin()) with begin() = end()
PopFrontEmpty ==
    /\ fault = "none" /\ pc = "idle"
    /\ wedge = <<>>
    /\ fault' \in UBOutcomes
    /\ op' = "pop_front"
    /\ UNCHANGED <<wedge, cmp, hist, erased, popped, gone, lastPopped, pc, W, out>>
    /\ UNCHANGED <<min_wedge, max_wedge>>

NextEmpty == MinUpdate \/ MaxUpdate \/ PopFront \/ Front \/ FrontEmpty \/ PopFrontEmpty

SpecEmpty == Init /\ [][NextEmpty]_vars

\* ---- the unit test's loop: pop old samples from both wedges, then update both
\* example.cpp's eviction loop run to its end on w: the wedge left, and whether
\* *begin() was read on an empty wedge.
RECURSIVE example_evict(_, _, _)
example_evict(w, now, rangeSize) ==
    IF w = <<>> THEN [w |-> w, ub |-> TRUE]
    ELSE IF Expired(w[1], now, rangeSize)
    THEN example_evict(pop_front(w), now, rangeSize)
    ELSE [w |-> w, ub |-> FALSE]

\* while (!min_wedge.empty() && t - min_wedge.front().time >= interval)
\*     min_wedge.pop_front();
RECURSIVE test_pop_min(_, _, _)
test_pop_min(minw, t, interval) ==
    IF minw /= <<>> /\ t - minw[1].time >= interval
    THEN test_pop_min(pop_front(minw), t, interval)
    ELSE minw

\* while (!min_wedge.empty() && t - max_wedge.front().time >= interval)
\*     max_wedge.pop_front();
\* The wedge left, and whether front() was read on an empty max_wedge.
RECURSIVE test_pop_max(_, _, _, _)
test_pop_max(minw, maxw, t, interval) ==
    IF minw /= <<>>
    THEN IF maxw = <<>> THEN [w |-> maxw, ub |-> TRUE]
         ELSE IF t - maxw[1].time >= interval
         THEN test_pop_max(minw, pop_front(maxw), t, interval)
         ELSE [w |-> maxw, ub |-> FALSE]
    ELSE [w |-> maxw, ub |-> FALSE]

\* The time t of the iteration in progress: samples 0..t-1 have been inserted.
TestTime == Len(hist)

InitTest ==
    /\ wedge = <<>>
    /\ cmp = "less"
    /\ hist = <<>>
    /\ erased = 0
    /\ popped = 0
    /\ gone = {}
    /\ lastPopped = -1
    /\ pc = "pop"
    /\ W \in Windows
    /\ fault = "none"
    /\ out = NoEntry
    /\ op = "init"
    /\ min_wedge = <<>>
    /\ max_wedge = <<>>

\* "Pop old samples": the two while loops, one after the other.
TestPop ==
    /\ fault = "none" /\ pc = "pop"
    /\ TestTime < MaxN
    /\ LET minw == test_pop_min(min_wedge, TestTime, W)
           r    == test_pop_max(minw, max_wedge, TestTime, W)
       IN  /\ min_wedge' = minw
           /\ max_wedge' = r.w
           /\ IF r.ub THEN fault' \in UBOutcomes ELSE fault' = fault
    /\ pc' = "update"
    /\ op' = "pop_front"
    /\ UNCHANGED <<wedge, cmp, hist, erased, popped, gone, lastPopped, W, out>>

\* "Update the wedge": the sample {t, value} goes into both wedges.
TestUpdate ==
    /\ fault = "none" /\ pc = "update"
    /\ \E v \in Values :
          LET sample == Sample(TestTime, v)
          IN  /\ min_wedge' = min_update(min_wedge, sample)
              /\ max_wedge' = max_update(max_wedge, sample)
              /\ hist' = Append(hist, sample)
    /\ pc' = "pop"
    /\ op' = "update"
    /\ UNCHANGED <<wedge, cmp, erased, popped, gone, lastPopped, W, fault, out>>

NextTest == TestPop \/ TestUpdate

SpecTest == InitTest /\ [][NextTest]_vars

\* ------------------------------------------------------------- properties

\* The strict order of the caller's comparator, on values.
Beats(a, b) == IF cmp = "less" THEN a < b ELSE a > b

Last(q) == q[Len(q)]

\* C1: after every update (one comparator throughout) and every pop_front on
\* a non-empty wedge, each stored value strictly precedes its successor under
\* the comparator; no two equal values are stored.
C1_StrictlyMonotonic ==
    \A j \in 1..(Len(wedge) - 1) : Beats(wedge[j].value, wedge[j + 1].value)

C1_Witness ==
    /\ op = "update" /\ Len(wedge) >= 3 /\ popped >= 1 /\ erased >= 1

\* The values whose keys lie in the window of width W ending at the last key.
WindowValues ==
    {hist[j].value : j \in {k \in 1..Len(hist) : hist[k].time > LastKey - W}}

BruteExtremum == CHOOSE x \in WindowValues : \A y \in WindowValues : ~Beats(y, x)

\* C2: under the update-then-evict policy, the front read after the eviction
\* loop holds the maximum (greater) or minimum (less) of the values whose keys
\* lie in the trailing window of width W, as found by rescanning the history.
C2_FrontIsWindowExtremum ==
    (pc = "idle" /\ op = "front") => out.value = BruteExtremum

C2_Witness ==
    /\ pc = "idle" /\ op = "front"
    /\ popped >= 1 /\ erased >= 1 /\ Len(wedge) >= 2
    /\ out.value = BruteExtremum
    /\ out /= Last(hist)

\* C3: the front of a non-empty wedge is not beaten by any value inserted
\* after the most recently popped entry (by any value inserted so far when
\* pop_front was never called).
C3_FrontIsExtremumSincePop ==
    wedge /= <<>> =>
        \A j \in 1..Len(hist) :
            hist[j].time > lastPopped => ~Beats(hist[j].value, wedge[1].value)

C3_Witness ==
    /\ wedge /= <<>> /\ popped >= 1 /\ erased >= 1
    /\ Len(hist) >= 4 /\ wedge[1] /= Last(hist)
    /\ \E j \in 1..Len(hist) : hist[j].time <= lastPopped
                               /\ Beats(hist[j].value, wedge[1].value)

\* The length of the longest prefix of w all of whose values beat v.
KeepLen(w, v) ==
    CHOOSE n \in 0..Len(w) :
        /\ \A j \in 1..n : Beats(w[j].value, v)
        /\ (n < Len(w) => ~Beats(w[n + 1].value, v))

\* C4: update(v) on a strictly monotonic wedge leaves the longest prefix whose
\* entries all satisfy comp(e, v), followed by v; the position search returns
\* is the first entry with comp(e, v) false, or end if there is none.
C4_UpdateKeepsLongestPrefix ==
    [][hist' /= hist =>
         LET s == Last(hist')
             n == KeepLen(wedge, s.value)
         IN  /\ wedge' = Append(SubSeq(wedge, 1, n), s)
             /\ search(wedge, s, cmp) = n + 1]_vars

C4_Witness ==
    /\ op = "update" /\ Len(hist) >= 8 /\ erased >= 3 /\ Len(wedge) >= 3

\* C5: an update whose value equals the tail's value replaces the tail by the
\* new entry, so the stored size does not grow.
C5_TieEvictsTail ==
    [][(hist' /= hist /\ wedge /= <<>> /\ Last(hist').value = Last(wedge).value) =>
         /\ wedge' = Append(SubSeq(wedge, 1, Len(wedge) - 1), Last(hist'))
         /\ Len(wedge') = Len(wedge)]_vars

C5_Witness ==
    /\ op = "update" /\ Len(hist) >= 3 /\ Len(wedge) >= 2
    /\ hist[Len(hist)].value = hist[Len(hist) - 1].value
    /\ hist[Len(hist) - 1].value = hist[Len(hist) - 2].value
    /\ Last(wedge) = Last(hist)

\* C6: front() and pop_front() on an empty wedge fail with EmptyError and
\* leave the wedge empty.
C6_EmptyCallsRaiseEmptyError ==
    [][(wedge = <<>> /\ hist' = hist /\ op' \in {"front", "pop_front"}) =>
         (fault' = "EmptyError" /\ wedge' = <<>>)]_vars

Times(q) == {q[j].time : j \in 1..Len(q)}

\* C7: every entry is inserted once and removed at most once: inserted =
\* stored + removed, and the entries removed by update and by pop_front
\* together never outnumber the update calls.
C7_InsertedOnceRemovedAtMostOnce ==
    /\ Len(hist) = Len(wedge) + erased + popped
    /\ erased + popped <= Len(hist)
    /\ Cardinality(gone) = erased + popped
    /\ Cardinality(Times(wedge)) = Len(wedge)
    /\ Times(wedge) \cap gone = {}
    /\ Times(wedge) \cup gone = Times(hist)

C7_Witness ==
    /\ Len(hist) = MaxN /\ erased >= 1 /\ popped >= 1 /\ Len(wedge) >= 2

\* C8: under the update-then-evict policy (W >= 1) the wedge is non-empty at
\* every read of the front and at the end of the eviction loop: the entry just
\* inserted stays the last stored entry and is never popped.
C8_WindowCallerNeverEmpty ==
    /\ fault = "none"
    /\ hist /= <<>> => (wedge /= <<>> /\ Last(wedge) = Last(hist))

C8_Witness ==
    /\ pc = "evict" /\ op = "pop_front" /\ Len(wedge) = 1 /\ popped >= 2
    /\ W >= 1 /\ fault = "none"

\* C9: pop_front on a non-empty wedge removes exactly the first entry and
\* leaves entries 2..n unchanged and in order.
C9_PopFrontRemovesOnlyFirst ==
    [][popped' = popped + 1 =>
         /\ Len(wedge') = Len(wedge) - 1
         /\ \A j \in 1..Len(wedge') : wedge'[j] = wedge[j + 1]]_vars

C9_Witness ==
    /\ op = "pop_front" /\ Len(wedge) >= 2

\* C10: with strictly increasing keys the stored keys increase strictly front
\* to back: the front is the oldest stored entry and the back is the entry
\* most recently inserted.
C10_KeysIncreasing ==
    /\ \A j \in 1..(Len(wedge) - 1) : wedge[j].time < wedge[j + 1].time
    /\ wedge /= <<>> =>
         /\ \A j \in 1..Len(wedge) : wedge[1].time <= wedge[j].time
         /\ Last(wedge) = Last(hist)

C10_Witness ==
    /\ Len(wedge) >= 2 /\ popped >= 1 /\ erased >= 1
    /\ wedge[2].time > wedge[1].time + 1

\* The loop-condition evaluations of the search made by the update step, and
\* those among them that probed an element.
StepSearched == search_steps(wedge, Last(hist'), cmp)

Probed(st) == SelectSeq(st, LAMBDA r : r.cond)

\* In the search specification the wedge searched by the one update is the
\* history before it, and the value searched for is the last of the history.
LastSearched == search_steps(SubSeq(hist, 1, Len(hist) - 1), Last(hist), cmp)

\* C11 as stated: the backward scan stops at the first probed element e with
\* comp(e, value) false, and the successor of that element is the boundary.
C11_ScanStopsAtFirstCompFalse ==
    [][hist' /= hist =>
         LET v  == Last(hist').value
             pr == Probed(StepSearched)
         IN  \A k \in 1..Len(pr) :
                 /\ pr[k].hit <=> ~Beats(wedge[pr[k].pos].value, v)
                 /\ pr[k].hit => search(wedge, Last(hist'), cmp) = pr[k].pos + 1]_vars

\* C11 (amended): the backward scan stops at the first probed element e with
\* comp(e, value) true, and the successor of that element is the dominance
\* boundary, the start of the erased suffix.
C11_ScanStopsAtFirstCompTrue ==
    [][hist' /= hist =>
         LET v  == Last(hist').value
             pr == Probed(StepSearched)
         IN  \A k \in 1..Len(pr) :
                 /\ pr[k].hit <=> Beats(wedge[pr[k].pos].value, v)
                 /\ pr[k].hit =>
                      /\ k = Len(pr)
                      /\ search(wedge, Last(hist'), cmp) = pr[k].pos + 1
                      /\ pr[k].pos = KeepLen(wedge, v)
                      /\ wedge' = Append(SubSeq(wedge, 1, pr[k].pos), Last(hist'))]_vars

C11_Witness ==
    /\ op = "update" /\ Len(hist) >= 2
    /\ Len(Probed(LastSearched)) >= 2
    /\ LastSearched[Len(LastSearched)].hit
    /\ erased = Len(LastSearched) - 1

\* C12 as stated: the scan starts at the last stored entry and the distance
\* between consecutive probed positions doubles: strides 1, 2, 4, 8, ...
C12_StridesDouble ==
    [][hist' /= hist =>
         LET pr == Probed(StepSearched)
         IN  /\ pr /= <<>> => pr[1].pos = Len(wedge)
             /\ \A k \in 1..(Len(pr) - 1) :
                    pr[k].pos - pr[k + 1].pos = 2 ^ (k - 1)]_vars

\* C12 (amended): the scan starts at the last stored entry and moves backward
\* one entry at a time; the k-th probe is made only while size - k >= 2^k, so
\* it is the bound on the scan, not the stride, that grows exponentially.
C12_ScanStepsByOne ==
    [][hist' /= hist =>
         LET pr == Probed(StepSearched)
         IN  /\ pr /= <<>> => pr[1].pos = Len(wedge)
             /\ \A k \in 1..(Len(pr) - 1) : pr[k].pos - pr[k + 1].pos = 1
             /\ \A k \in 1..Len(pr) :
                    /\ pr[k].i = k
                    /\ Len(wedge) - k >= 2 ^ k]_vars

C12_Witness ==
    /\ op = "update" /\ Len(hist) >= 2
    /\ Len(Probed(LastSearched)) >= 3
    /\ erased >= 3

\* The largest J with 2^J <= n - J, for n >= 1.
MaxScan(n) == CHOOSE j \in 0..n : 2 ^ j <= n - j /\ ~(2 ^ (j + 1) <= n - (j + 1))

\* The scan of a wedge of size N >= 1 probes at most J elements, none when
\* N <= 2, evaluates its condition at most J + 1 times, and unless a probe
\* returned, the result is std::lower_bound over the range left of the probes.
ScanBounded ==
    LET n  == Len(wedge)
        st == StepSearched
        pr == Probed(st)
    IN  n >= 1 =>
          /\ Len(pr) <= MaxScan(n)
          /\ Len(st) <= MaxScan(n) + 1
          /\ n <= 2 => pr = <<>>
          /\ ~st[Len(st)].hit =>
               search(wedge, Last(hist'), cmp)
                 = lower_bound(wedge, 1, n - Len(pr), Last(hist'), cmp)

\* C13 as stated: the scan of a wedge of size N terminates after at most J
\* probes, J the largest integer with 2^J <= N - J, and J < log2 N.
C13_ScanAtMostJBelowLog ==
    [][hist' /= hist =>
         /\ ScanBounded
         /\ Len(wedge) >= 1 => 2 ^ MaxScan(Len(wedge)) < Len(wedge)]_vars

\* C13 (amended): the scan of a wedge of size N terminates after at most J
\* probes, J the largest integer with 2^J <= N - J, so J <= log2 N, and
\* J < log2 N when N >= 2; it probes nothing when N <= 2, and the remaining
\* range is resolved by binary search.
C13_ScanAtMostJ ==
    [][hist' /= hist =>
         /\ ScanBounded
         /\ Len(wedge) >= 1 => 2 ^ MaxScan(Len(wedge)) <= Len(wedge)
         /\ Len(wedge) >= 2 => 2 ^ MaxScan(Len(wedge)) < Len(wedge)]_vars

C13_Witness ==
    /\ op = "update" /\ Len(hist) >= 12
    /\ Len(Probed(LastSearched)) = MaxScan(Len(hist) - 1)
    /\ Len(Probed(LastSearched)) = 3
    /\ ~LastSearched[Len(LastSearched)].hit
    /\ Len(wedge) >= 2

\* C14: one update evaluates the comparator at most 2 * E + 2 times, E the
\* number of entries it erases; the updates made from an empty wedge evaluate
\* it at most 4 times their number in total.
C14_ComparisonsLinear ==
    /\ [][hist' /= hist =>
            search_cmps(wedge, Last(hist'), cmp) <= 2 * (erased' - erased) + 2]_vars
    /\ [](Replay(hist, cmp).n <= 4 * Len(hist))

C14_Witness ==
    /\ op = "update" /\ Len(hist) >= 7
    /\ Replay(hist, cmp).w = wedge
    /\ Replay(hist, cmp).n - Replay(SubSeq(hist, 1, Len(hist) - 1), cmp).n
         = 2 * erased + 1
    /\ erased >= 1

\* C15: at every evaluation of the loop condition of search on a wedge of
\* size N >= 1 the counter i is in 1..size, so size - i does not wrap and the
\* shift is below the word width; search_pos never moves before begin, and
\* the upper end passed to the binary search lies in [begin + 1, end].
C15_CounterInRange ==
    [][hist' /= hist =>
         LET st == StepSearched
             n  == Len(wedge)
         IN  n >= 1 =>
               /\ st /= <<>>
               /\ \A k \in 1..Len(st) :
                      /\ 1 <= st[k].i /\ st[k].i <= n
                      /\ st[k].i < WordBits
                      /\ st[k].pos >= 1 /\ st[k].pos <= n
               /\ ~st[Len(st)].cond =>
                      /\ st[Len(st)].pos + 1 >= 2
                      /\ st[Len(st)].pos + 1 <= n + 1]_vars

C15_Witness ==
    /\ op = "update" /\ Len(hist) >= 2
    /\ Len(LastSearched) >= 4
    /\ ~LastSearched[Len(LastSearched)].cond
    /\ LastSearched[Len(LastSearched)].i <= Len(hist) - 1

AllFresh(w, t, interval) == \A j \in 1..Len(w) : t - w[j].time < interval

\* C16: after the unit test's "pop old samples" step at time t, for any
\* interval >= 1, the min wedge and the max wedge hold only samples with
\* t - time < interval, and front() was not read on an empty wedge.
C16_PopStepLeavesOnlyFresh ==
    pc = "update" =>
        /\ fault = "none"
        /\ AllFresh(min_wedge, TestTime, W)
        /\ AllFresh(max_wedge, TestTime, W)

\* The min wedge alone: its loop is guarded by its own emptiness test.
MinPopStepLeavesOnlyFresh ==
    pc = "update" => (fault = "none" /\ AllFresh(min_wedge, TestTime, W))

\* C17: for the wedges of the unit test, every new value and the window W,
\* evicting the aged-out heads before the update (the unit test's order)
\* leaves the same stored sequence as updating first and evicting afterwards
\* (the example's order).
C17_EvictionCommutesWithUpdate ==
    (pc = "pop" /\ fault = "none") =>
        \A v \in Values :
            LET t      == TestTime
                sample == Sample(t, v)
                minw   == test_pop_min(min_wedge, t, W)
                maxr   == test_pop_max(minw, max_wedge, t, W)
                emin   == example_evict(min_update(min_wedge, sample), t, W)
                emax   == example_evict(max_update(max_wedge, sample), t, W)
            IN  /\ ~maxr.ub /\ ~emin.ub /\ ~emax.ub
                /\ min_update(minw, sample) = emin.w
                /\ max_update(maxr.w, sample) = emax.w

\* The same for the min wedge alone.
MinEvictionCommutesWithUpdate ==
    (pc = "pop" /\ fault = "none") =>
        \A v \in Values :
            LET t      == TestTime
                sample == Sample(t, v)
                emin   == example_evict(min_update(min_wedge, sample), t, W)
            IN  /\ ~emin.ub
                /\ min_update(test_pop_min(min_wedge, t, W), sample) = emin.w

====
